---- MODULE Spec2Model ----
(***************************************************************************)
(* Model of the POD receipt extraction pipeline:                           *)
(*   - the HTTP upload handler (app.post("/api/upload-document")) and the  *)
(*     tRPC upload mutation (documentRouter.upload);                       *)
(*   - the extraction run extractPODDataFromPDF with extractPageData,      *)
(*     saveExtractedPageData, saveTokenUsage and updateDocumentStatus;     *)
(*   - the three tables upload_documents, extracted_page_data and          *)
(*     document_token_usage.                                               *)
(* Every awaited operation of the run is one action; its outcome (returns  *)
(* or throws) is chosen by the environment (the store, the hosted model).  *)
(***************************************************************************)
EXTENDS Integers, Sequences, FiniteSets, TLC

\* ---------------------------------------------------------------- bounds
MaxEvents == 2   \* calls from outside: upload requests and re-triggered runs
MaxHttpRuns == 1 \* HTTP uploads that pass the handler's checks and start a run
MaxPages == 2    \* largest page count of an uploaded PDF
MaxListDocs == 21 \* documents uploaded in the runs of SpecReads
MaxClock == 3    \* milliseconds that pass in the runs of SpecClock

\* ------------------------------------------------------------ vocabulary
NULL == "null"
NoDoc == 0
NoRun == 0
PdfMime == "application/pdf"
MimeTypes == {PdfMime, "image/png"}

\* What pdf-parse finds in the uploaded bytes: a page count, or bytes it
\* cannot read (pdf() throws).
Corrupt == -1
Files == {Corrupt} \cup (0..MaxPages)

\* --------------------------------------------------- the hosted model API
\* Raw objects the hosted model may return.  absent is the set of keys the
\* object does not carry.
RawObject(cn, cs, fe, uf, ab) ==
    [containerNumbers |-> cn, containerSizes |-> cs, fullEmptyStatuses |-> fe,
     unsureFields |-> uf, absent |-> ab]

\* result.usage of generateObject: absent, or token counts.
NoUsage == [reported |-> FALSE, totalTokens |-> 0]
Usage(totalTokens) == [reported |-> TRUE, totalTokens |-> totalTokens]

\* What one call of the hosted model may answer: an object and its usage.
\*   1. one container, all fields read;
\*   2. two containers, the second unreadable (nulls);
\*   3. arrays of different lengths, no unsureFields key, no usage reported;
\*   4. a status outside the enum;
\*   5. a required array missing.
ModelResults ==
    { [object |-> RawObject(<<"ABCD1234567">>, <<"40ft">>, <<"FULL">>, <<>>, {}),
       usage |-> Usage(100)],
      [object |-> RawObject(<<"A1", NULL>>, <<"20ft", NULL>>, <<"FULL", NULL>>,
                            <<"pageDate">>, {}),
       usage |-> Usage(150)],
      [object |-> RawObject(<<"A1", "B2">>, <<"20ft">>, <<>>, <<>>, {"unsureFields"}),
       usage |-> NoUsage],
      [object |-> RawObject(<<"A1">>, <<"20ft">>, <<"HALF">>, <<>>, {}),
       usage |-> Usage(100)],
      [object |-> RawObject(<<"A1">>, <<>>, <<"EMPTY">>, <<>>, {"containerSizes"}),
       usage |-> Usage(100)] }

\* A schema that accepts whatever object the model answers with.
ExtractedPODSchemaAny(raw) == TRUE

\* ExtractedPODSchema: the three arrays are required, every element of
\* fullEmptyStatuses is FULL, EMPTY or null, unsureFields is optional.
\* Nothing relates the lengths of the arrays.
ExtractedPODSchema(raw) ==
    /\ "containerNumbers" \notin raw.absent
    /\ "containerSizes" \notin raw.absent
    /\ "fullEmptyStatuses" \notin raw.absent
    /\ \A i \in 1..Len(raw.fullEmptyStatuses) :
           raw.fullEmptyStatuses[i] \in {"FULL", "EMPTY", NULL}

\* The object zod hands back: unsureFields defaults to [].
ParsedObject(raw) ==
    [containerNumbers |-> raw.containerNumbers,
     containerSizes |-> raw.containerSizes,
     fullEmptyStatuses |-> raw.fullEmptyStatuses,
     unsureFields |-> IF "unsureFields" \in raw.absent THEN <<>> ELSE raw.unsureFields]

\* A pageData whose sizes and numbers are taken from each other's array.
PageDataSwapped(pageNumber, obj) ==
    [pageNumber |-> pageNumber,
     containerNumbers |-> obj.containerSizes,
     containerSizes |-> obj.containerNumbers,
     fullEmptyStatuses |-> obj.fullEmptyStatuses,
     unsureFields |-> obj.unsureFields]

\* ExtractedPODData built by extractPageData from result.object.
PageData(pageNumber, obj) ==
    [pageNumber |-> pageNumber,
     containerNumbers |-> obj.containerNumbers,
     containerSizes |-> obj.containerSizes,
     fullEmptyStatuses |-> obj.fullEmptyStatuses,
     unsureFields |-> obj.unsureFields]

\* The entry pushed by the orchestrator's per-page catch.
PlaceholderPage(pageNum) ==
    [pageNumber |-> pageNum,
     containerNumbers |-> <<>>,
     containerSizes |-> <<>>,
     fullEmptyStatuses |-> <<>>,
     unsureFields |-> <<"*all*">>]

\* The outcome of a query: the error it threw, or the objects it returned.
Rejected(error) == [error |-> error, data |-> <<>>]
Returned(data) == [error |-> "", data |-> data]

\* A query as the client sees it: procedure, input and outcome.
Read(op, input, outcome) ==
    [op |-> op, input |-> input, error |-> outcome.error, data |-> outcome.data]

NoRead == Read("none", [documentId |-> NoDoc], Returned(<<>>))

NoResult == [object |-> ParsedObject(RawObject(<<>>, <<>>, <<>>, <<>>, {})), usage |-> NoUsage]

\* ----------------------------------------------------------------- state
VARIABLES
    uploadDocuments,     \* table upload_documents: documentId -> row
    extractedPageData,   \* table extracted_page_data: set of rows
    documentTokenUsage,  \* table document_token_usage: set of rows
    files,               \* documentId -> the bytes uploaded for it (in memory only)
    requests,            \* upload requests: sequence of handler states
    runs,                \* calls of extractPODDataFromPDF: sequence of run states
    errorLog,            \* runs whose rejection reached the handler's .catch
    unhandled,           \* runs whose rejection nobody handled
    lastRead,            \* the latest query of documentRouter and its outcome
    clock                \* Date.now(), in milliseconds since the server started

vars == <<uploadDocuments, extractedPageData, documentTokenUsage, files,
          requests, runs, errorLog, unhandled, lastRead, clock>>

Documents == DOMAIN uploadDocuments
Runs == 1..Len(runs)
Requests == 1..Len(requests)

\* Calls received from outside so far.
Events == Len(requests) + Cardinality({r \in Runs : runs[r].origin = "direct"})

Init ==
    /\ uploadDocuments = <<>>
    /\ extractedPageData = {}
    /\ documentTokenUsage = {}
    /\ files = <<>>
    /\ requests = <<>>
    /\ runs = <<>>
    /\ errorLog = {}
    /\ unhandled = {}
    /\ lastRead = NoRead
    /\ clock = 0

\* ------------------------------------------------------------ the store
\* db.insert(uploadDocuments).values({... extractionStatus: "IDEAL"}).returning():
\* a fresh primary key, no extraction id.
NewDocumentId == Len(uploadDocuments) + 1

\* created_at timestamp defaultNow(): the time of the insert.  Rows are
\* inserted one at a time and a later insert gets a later time.
defaultNow == Len(uploadDocuments) + 1

\* An insert that leaves the status to a column default of PROCESSING.
InsertDocumentProcessing(userId) ==
    Append(uploadDocuments,
           [documentId |-> NewDocumentId, userId |-> userId,
            extractionStatus |-> "PROCESSING",
            extractionId |-> NoRun, createdAt |-> defaultNow])

InsertDocument(userId) ==
    Append(uploadDocuments,
           [documentId |-> NewDocumentId, userId |-> userId, extractionStatus |-> "IDEAL",
            extractionId |-> NoRun, createdAt |-> defaultNow])

\* An UPDATE that sets the status column and leaves extraction_id alone.
updateDocumentStatusOnly(documentId, status, extractionId) ==
    IF documentId \in Documents
    THEN [uploadDocuments EXCEPT ![documentId] = [@ EXCEPT !.extractionStatus = status]]
    ELSE uploadDocuments

\* An UPDATE that sets the status and fills extraction_id only when the row
\* has none yet.
updateDocumentStatusKeepsId(documentId, status, extractionId) ==
    IF documentId \in Documents
    THEN [uploadDocuments EXCEPT ![documentId] =
              [@ EXCEPT !.extractionStatus = status,
                        !.extractionId = IF @ = NoRun THEN extractionId ELSE @]]
    ELSE uploadDocuments

\* An UPDATE without its where clause: every row is set.
updateDocumentStatusAll(documentId, status, extractionId) ==
    [d \in Documents |->
        [uploadDocuments[d] EXCEPT !.extractionStatus = status, !.extractionId = extractionId]]

\* updateDocumentStatus: one UPDATE setting both columns of the row whose
\* documentId matches (no row, no change).
updateDocumentStatus(documentId, status, extractionId) ==
    IF documentId \in Documents
    THEN [uploadDocuments EXCEPT ![documentId] =
              [@ EXCEPT !.extractionStatus = status, !.extractionId = extractionId]]
    ELSE uploadDocuments

\* A plain (non-unique) index on (documentId, pageNumber).
PageExistsNotUnique(documentId, pageNumber) == FALSE

\* The unique index extracted_page_data_document_page_idx.
PageExists(documentId, pageNumber) ==
    \E row \in extractedPageData :
        row.documentId = documentId /\ row.pageNumber = pageNumber

\* saveExtractedPageData: the row inserted for pageData.
saveExtractedPageData(documentId, pageData) ==
    extractedPageData \cup
        {[documentId |-> documentId,
          pageNumber |-> pageData.pageNumber,
          containerNumbers |-> pageData.containerNumbers,
          containerSizes |-> pageData.containerSizes,
          fullEmptyStatuses |-> pageData.fullEmptyStatuses,
          unsureFields |-> pageData.unsureFields]}

\* The TokenUsageData object extractPageData builds from result.usage.
TokenUsageData(requestId, usage, durationMs) ==
    [requestId |-> requestId, totalTokens |-> usage.totalTokens, durationMs |-> durationMs]

\* saveTokenUsage: the row inserted for one model call.
saveTokenUsage(documentId, usage) ==
    documentTokenUsage \cup
        {[documentId |-> documentId, requestId |-> usage.requestId,
          totalTokens |-> usage.totalTokens, durationMs |-> usage.durationMs]}

\* ------------------------------------------- queries of documentRouter
\* orderBy asc(pageNumber): the rows as a list, smallest page number first.
RECURSIVE OrderByPageNumber(_)
OrderByPageNumber(rows) ==
    IF rows = {} THEN <<>>
    ELSE LET first == CHOOSE x \in rows : \A y \in rows : x.pageNumber <= y.pageNumber
         IN  <<first>> \o OrderByPageNumber(rows \ {first})

\* A query that forgets the where clause and returns every document's pages.
getExtractedDataOfAll(documentId) ==
    OrderByPageNumber(extractedPageData)

\* getExtractedData: findMany where documentId matches, ordered by page.
getExtractedData(documentId) ==
    OrderByPageNumber({row \in extractedPageData : row.documentId = documentId})

\* db.query.uploadDocuments.findFirst({where: eq(documentId, ...)}): the
\* rows found, none or one.
findFirst(documentId) ==
    LET found == {d \in Documents : uploadDocuments[d].documentId = documentId}
    IN  IF found = {} THEN <<>> ELSE <<uploadDocuments[CHOOSE d \in found : TRUE]>>

\* A getDocument that returns what findFirst gave, found or not.
getDocumentUnchecked(documentId) == Returned(findFirst(documentId))

\* getDocument: the row, or Error("Document not found").
getDocument(documentId) ==
    IF findFirst(documentId) = <<>>
    THEN Rejected("Document not found")
    ELSE Returned(findFirst(documentId))

\* getExtractionStatus: {documentId, status, extractionId} of the row, or
\* Error("Document not found").
getExtractionStatus(documentId) ==
    IF findFirst(documentId) = <<>>
    THEN Rejected("Document not found")
    ELSE LET document == findFirst(documentId)[1]
         IN  Returned(<<[documentId |-> document.documentId,
                         status |-> document.extractionStatus,
                         extractionId |-> document.extractionId]>>)

\* orderBy desc(createdAt): the rows as a list, newest first.
RECURSIVE OrderByCreatedAtDesc(_)
OrderByCreatedAtDesc(rows) ==
    IF rows = {} THEN <<>>
    ELSE LET first == CHOOSE x \in rows : \A y \in rows : x.createdAt >= y.createdAt
         IN  <<first>> \o OrderByCreatedAtDesc(rows \ {first})

\* getDocumentsByUser: findMany where userId matches, newest first.
getDocumentsByUser(userId) ==
    Returned(OrderByCreatedAtDesc({uploadDocuments[d] : d \in
                                      {e \in Documents : uploadDocuments[e].userId = userId}}))

\* The input of listDocuments: omitted altogether, or an object in which
\* limit and offset are each given or left out.
Undefined == -1
DefaultLimit == 20
DefaultOffset == 0
MaxLimit == 100
ListInputs ==
    {[omitted |-> TRUE, limit |-> Undefined, offset |-> Undefined]} \cup
    [omitted : {FALSE},
     limit : {Undefined, 0, 1, 2, MaxLimit, MaxLimit + 1},
     offset : {Undefined, 0, 1, 2}]

\* The zod schema of the input: limit a positive integer up to 100,
\* offset a non-negative integer, both optional, the object optional.
ListInputValid(input) ==
    \/ input.omitted
    \/ /\ input.limit = Undefined \/ (input.limit > 0 /\ input.limit <= MaxLimit)
       /\ input.offset = Undefined \/ input.offset >= 0

\* LIMIT limit OFFSET offset over an ordered list.
LimitOffset(list, limit, offset) ==
    SubSeq(list, offset + 1,
           IF offset + limit < Len(list) THEN offset + limit ELSE Len(list))

\* A listDocuments that takes offset for a page index (offset * limit rows
\* are skipped).
listDocumentsByPage(input) ==
    IF ~ListInputValid(input) THEN Rejected("BAD_REQUEST")
    ELSE LET limit == IF input.omitted \/ input.limit = Undefined
                      THEN DefaultLimit ELSE input.limit
             offset == IF input.omitted \/ input.offset = Undefined
                       THEN DefaultOffset ELSE input.offset
         IN  Returned(LimitOffset(OrderByCreatedAtDesc({uploadDocuments[d] : d \in Documents}),
                                  limit, offset * limit))

\* listDocuments: limit and offset default to 20 and 0; findMany with
\* limit, offset and orderBy desc(createdAt).
listDocuments(input) ==
    IF ~ListInputValid(input) THEN Rejected("BAD_REQUEST")
    ELSE LET limit == IF input.omitted \/ input.limit = Undefined
                      THEN DefaultLimit ELSE input.limit
             offset == IF input.omitted \/ input.offset = Undefined
                       THEN DefaultOffset ELSE input.offset
         IN  Returned(LimitOffset(OrderByCreatedAtDesc({uploadDocuments[d] : d \in Documents}),
                                  limit, offset))

\* ------------------------------------------------------- upload handlers
NoResponse == [code |-> 0, body |-> [pending |-> TRUE]]

Request(route, input, pc, response) ==
    [route |-> route, mimetype |-> input.mimetype, hasFile |-> input.hasFile,
     file |-> input.file, userId |-> input.userId, passed |-> pc # "done", pc |-> pc, documentId |-> NoDoc, response |-> response]

\* The users that upload.
FirstUser == "u1"
Users == {FirstUser, "u2"}

\* What a client may send: a multipart body with or without a file part,
\* the file's declared content type, the required form fields (userId and
\* instructionNumber) or not.
UploadInputs ==
    { in \in [mimetype : MimeTypes, hasFile : BOOLEAN, hasFields : BOOLEAN, file : Files,
               userId : Users] :
        /\ (~in.hasFields => in.userId = FirstUser)
        /\ (~in.hasFile => in.mimetype = PdfMime /\ in.file = Corrupt)
        /\ (in.mimetype # PdfMime => in.file = Corrupt) }

\* A filter that lets every content type through.
fileFilterAcceptsAll(mimetype) == TRUE

\* multer's fileFilter: only application/pdf passes.
fileFilter(mimetype) == mimetype = PdfMime

\* res.json of the HTTP handler after the run was started.
UploadResponse(documentId) ==
    [code |-> 200,
     body |-> [success |-> TRUE, documentId |-> documentId,
               message |-> "Document uploaded successfully. Processing started."]]

\* Return value of the tRPC upload mutation.
TrpcUploadResult(document) ==
    [code |-> 200,
     body |-> [documentId |-> document.documentId,
               extractionStatus |-> document.extractionStatus]]

ErrorResponse(code, error) == [code |-> code, body |-> [error |-> error]]

\* A new call of extractPODDataFromPDF: fresh extractionId, nothing done yet.
NewRun(documentId, origin) ==
    [documentId |-> documentId,
     origin |-> origin,
     extractionId |-> Len(runs) + 1,
     startTime |-> clock,
     durationMs |-> 0,        \* the durationMs handed to saveTokenUsage
     pc |-> "setProcessing",
     numPages |-> 0,
     pageNum |-> 0,
     extractedPages |-> <<>>,
     requestId |-> <<>>,
     result |-> NoResult,
     calls |-> <<>>,          \* history: the model invocations of this run
     inserted |-> {},         \* history: pages whose row this run inserted
     threw |-> {},            \* history: pages whose extractPageData threw
     pageStart |-> 0,         \* history: Date.now() when extractPageData was called
     measuredAt |-> 0,        \* history: Date.now() when durationMs was computed
     cause |-> "none",        \* history: what threw into the outer catch
     rejectedWith |-> "none", \* history: the error the run's promise rejected with
     overlapped |->           \* history: another run on the document was
         \E r \in Runs :      \*   unfinished at some moment of this run
             /\ runs[r].documentId = documentId
             /\ runs[r].pc \notin {"returned", "rejected", "abandoned"}]

\* The runs after extractPODDataFromPDF was called once more: the new run
\* is added (the history notes which unfinished runs it overlaps).
StartRun(documentId, origin) ==
    Append([r \in Runs |->
               IF runs[r].documentId = documentId
                  /\ runs[r].pc \notin {"returned", "rejected", "abandoned"}
               THEN [runs[r] EXCEPT !.overlapped = TRUE]
               ELSE runs[r]],
           NewRun(documentId, origin))

\* The inputs the HTTP handler lets through to the insert.
Passes(in) == in.hasFile /\ fileFilter(in.mimetype) /\ in.hasFields

\* POST /api/upload-document up to the first await: multer, then the
\* handler's checks of req.file and of the required fields.
HttpUpload(in) ==
    /\ Events < MaxEvents
    /\ Passes(in) =>
         Cardinality({h \in Requests : requests[h].route = "http" /\ requests[h].passed})
             < MaxHttpRuns
    /\ requests' = Append(requests,
          IF in.hasFile /\ ~fileFilter(in.mimetype)
          THEN Request("http", in, "done", ErrorResponse(500, "Only PDF files are allowed"))
          ELSE IF ~in.hasFile
          THEN Request("http", in, "done", ErrorResponse(400, "No file uploaded"))
          ELSE IF ~in.hasFields
          THEN Request("http", in, "done", ErrorResponse(400, "Missing required fields"))
          ELSE Request("http", in, "insert", NoResponse))
    /\ UNCHANGED <<uploadDocuments, extractedPageData, documentTokenUsage, files,
                   runs, errorLog, unhandled, lastRead, clock>>

\* The awaited insert of the document row: it returns the row, or throws
\* into the handler's catch (500).
HttpInsert(h, ok) ==
    /\ requests[h].route = "http" /\ requests[h].pc = "insert"
    /\ IF ok
       THEN /\ uploadDocuments' = InsertDocument(requests[h].userId)
            /\ files' = Append(files, requests[h].file)
            /\ requests' = [requests EXCEPT ![h].pc = "created",
                                             ![h].documentId = NewDocumentId]
       ELSE /\ requests' = [requests EXCEPT ![h].pc = "done",
                                             ![h].response = ErrorResponse(500, "Upload failed")]
            /\ UNCHANGED <<uploadDocuments, files>>
    /\ UNCHANGED <<extractedPageData, documentTokenUsage, runs,
                   errorLog, unhandled, lastRead, clock>>

\* The rest of the handler, one synchronous stretch: the run is called
\* without await (its promise only gets a .catch) and res.json is sent.
HttpStartRun(h) ==
    /\ requests[h].route = "http" /\ requests[h].pc = "created"
    /\ runs' = StartRun(requests[h].documentId, "http")
    /\ requests' = [requests EXCEPT ![h].pc = "done",
                                     ![h].response = UploadResponse(requests[h].documentId)]
    /\ UNCHANGED <<uploadDocuments, extractedPageData, documentTokenUsage, files,
                   errorLog, unhandled, lastRead, clock>>

\* documentRouter.upload: inserts the row and returns its id and status;
\* the extraction is not triggered (TODO in the source).
TrpcUpload(in, ok) ==
    /\ IF ok
       THEN /\ uploadDocuments' = InsertDocument(in.userId)
            /\ files' = Append(files, in.file)
            /\ requests' = Append(requests,
                  [Request("trpc", in, "done", TrpcUploadResult(InsertDocument(in.userId)[NewDocumentId]))
                      EXCEPT !.documentId = NewDocumentId, !.passed = TRUE])
       ELSE /\ requests' = Append(requests,
                  Request("trpc", in, "done", ErrorResponse(500, "insert failed")))
            /\ UNCHANGED <<uploadDocuments, files>>
    /\ UNCHANGED <<extractedPageData, documentTokenUsage, runs,
                   errorLog, unhandled, lastRead, clock>>

\* A call that is refused while the document is PROCESSING (a conditional
\* status transition in front of the run).
RetriggerGuarded(d) ==
    /\ d \in Documents
    /\ uploadDocuments[d].extractionStatus # "PROCESSING"
    /\ \A h \in Requests : requests[h].documentId = d => requests[h].pc = "done"
    /\ Events < MaxEvents
    /\ runs' = StartRun(d, "direct")
    /\ UNCHANGED <<uploadDocuments, extractedPageData, documentTokenUsage, files,
                   requests, errorLog, unhandled, lastRead, clock>>

\* extractPODDataFromPDF called again for a document that already exists
\* (the function is exported and checks nothing before it starts).
Retrigger(d) ==
    /\ d \in Documents
    /\ \A h \in Requests : requests[h].documentId = d => requests[h].pc = "done"
    /\ Events < MaxEvents
    /\ runs' = StartRun(d, "direct")
    /\ UNCHANGED <<uploadDocuments, extractedPageData, documentTokenUsage, files,
                   requests, errorLog, unhandled, lastRead, clock>>

\* ------------------------------------------------- the extraction run
\* Each action below is one awaited operation of the run together with the
\* synchronous code that follows it up to the next await.  A store operation
\* that throws has not been applied.
\* A request id drawn once per run instead of once per page call.
randomUUIDPerRun(run, pageNum) == <<run.extractionId, 0>>

\* crypto.randomUUID() at the top of extractPageData: a value no other call
\* draws, named here by the run and the page of the call.
randomUUID(run, pageNum) == <<run.extractionId, pageNum>>

\* The loop head `pageNum <= numPages`: the next page's extractPageData is
\* called (it draws its requestId first), or the loop is left.
LoopHead(run, pageNum) ==
    IF pageNum <= run.numPages
    THEN [run EXCEPT !.pageNum = pageNum, !.pc = "model",
                     !.requestId = randomUUID(run, pageNum), !.result = NoResult,
                     !.pageStart = clock]
    ELSE [run EXCEPT !.pageNum = pageNum, !.pc = "setCompleted",
                     !.requestId = <<>>, !.result = NoResult]

\* A loop that steps by two after a page that returned.
PageReturnedSkips(run, pageData) ==
    LoopHead([run EXCEPT !.extractedPages = Append(@, pageData)], run.pageNum + 2)

\* extractPageData returned pageData: it is pushed, pageNum++.
PageReturned(run, pageData) ==
    LoopHead([run EXCEPT !.extractedPages = Append(@, pageData)], run.pageNum + 1)

\* A per-page catch that lets the error escape to the outer catch.
PageThrewRethrown(run) ==
    [run EXCEPT !.threw = @ \cup {run.pageNum}, !.pc = "setFailed"]

\* A per-page catch that attempts the failed page once more.
PageThrewRetries(run) ==
    LoopHead([run EXCEPT !.extractedPages = Append(@, PlaceholderPage(run.pageNum)),
                         !.threw = @ \cup {run.pageNum}],
             run.pageNum)

\* extractPageData threw: the per-page catch pushes the placeholder entry
\* to the array the run returns, pageNum++.  Nothing is written to the store.
PageThrew(run) ==
    LoopHead([run EXCEPT !.extractedPages = Append(@, PlaceholderPage(run.pageNum)),
                         !.threw = @ \cup {run.pageNum}],
             run.pageNum + 1)

\* await updateDocumentStatus(documentId, "PROCESSING", extractionId, db)
RunSetProcessing(r, ok) ==
    /\ runs[r].pc = "setProcessing"
    /\ IF ok
       THEN /\ uploadDocuments' =
                  updateDocumentStatus(runs[r].documentId, "PROCESSING", runs[r].extractionId)
            /\ runs' = [runs EXCEPT ![r].pc = "parse"]
       ELSE /\ runs' = [runs EXCEPT ![r].pc = "setFailed", ![r].cause = "processing"]
            /\ UNCHANGED uploadDocuments
    /\ UNCHANGED <<extractedPageData, documentTokenUsage, files, requests,
                   errorLog, unhandled, lastRead, clock>>

\* await pdf(pdfBuffer); numPages = pdfData.numpages; the loop is entered.
RunParse(r) ==
    /\ runs[r].pc = "parse"
    /\ IF files[runs[r].documentId] = Corrupt
       THEN /\ runs' = [runs EXCEPT ![r].pc = "setFailed", ![r].cause = "parse"]
       ELSE LET run == [runs[r] EXCEPT !.numPages = files[runs[r].documentId]]
            IN  /\ runs' = [runs EXCEPT ![r] = LoopHead(run, 1)]
    /\ UNCHANGED <<uploadDocuments, extractedPageData, documentTokenUsage, files,
                   requests, errorLog, unhandled, lastRead, clock>>

\* History entry of one generateObject call: whether the model answered
\* (no transport or provider error), whether the call returned, and the
\* result.object and result.usage it returned.
Call(run, answered, returned, result) ==
    [pageNumber |-> run.pageNum, requestId |-> run.requestId, answered |-> answered,
     returned |-> returned, object |-> result.object, usage |-> result.usage]

\* await generateObject({model, schema, ...}): the call throws (transport,
\* provider), or the model answers raw with usage; an answer that does not
\* pass the schema throws as well.
RunModel(r, answered, res) ==
    /\ runs[r].pc = "model"
    /\ IF answered /\ ExtractedPODSchema(res.object)
       THEN LET result == [object |-> ParsedObject(res.object), usage |-> res.usage]
            IN  /\ runs' = [runs EXCEPT ![r].pc = "savePage",
                                         ![r].result = result,
                                         ![r].calls = Append(@, Call(runs[r], TRUE, TRUE, result))]
       ELSE LET run == [runs[r] EXCEPT !.calls = Append(@, Call(runs[r], answered, FALSE, NoResult))]
            IN  /\ runs' = [runs EXCEPT ![r] = PageThrew(run)]
    /\ UNCHANGED <<uploadDocuments, extractedPageData, documentTokenUsage, files,
                   requests, errorLog, unhandled, lastRead, clock>>

\* A page insert with onConflictDoUpdate: a row that exists for
\* (documentId, pageNumber) is replaced instead of refusing the insert.
RunSavePageUpserts(r, ok) ==
    /\ runs[r].pc = "savePage"
    /\ LET run == runs[r]
           pageData == PageData(run.pageNum, run.result.object)
           replaced == {row \in extractedPageData :
                           /\ row.documentId = run.documentId
                           /\ row.pageNumber = run.pageNum
                           /\ \/ row.containerNumbers # pageData.containerNumbers
                              \/ row.containerSizes # pageData.containerSizes
                              \/ row.fullEmptyStatuses # pageData.fullEmptyStatuses
                              \/ row.unsureFields # pageData.unsureFields}
       IN  IF ok
           THEN /\ extractedPageData' =
                      saveExtractedPageData(run.documentId, pageData) \ replaced
                /\ IF run.result.usage.reported
                   THEN /\ runs' = [runs EXCEPT ![r].pc = "saveUsage",
                                                 ![r].inserted = @ \cup {run.pageNum},
                                                 ![r].durationMs = clock - run.startTime,
                                                 ![r].measuredAt = clock]
                   ELSE /\ runs' = [runs EXCEPT ![r] =
                              PageReturned([run EXCEPT !.inserted = @ \cup {run.pageNum}],
                                           pageData)]
           ELSE /\ runs' = [runs EXCEPT ![r] = PageThrew(run)]
                /\ UNCHANGED extractedPageData
    /\ UNCHANGED <<uploadDocuments, documentTokenUsage, files, requests,
                   errorLog, unhandled, lastRead, clock>>

\* await saveExtractedPageData(documentId, pageData, db): the insert throws
\* when a row for (documentId, pageNumber) exists, and may throw otherwise.
\* After it, `if (result.usage)` decides whether the usage row is written;
\* its durationMs, Date.now() - startTime, is computed before the insert
\* is awaited.
RunSavePage(r, ok) ==
    /\ runs[r].pc = "savePage"
    /\ LET run == runs[r]
           pageData == PageData(run.pageNum, run.result.object)
       IN  IF ok /\ ~PageExists(run.documentId, run.pageNum)
           THEN /\ extractedPageData' = saveExtractedPageData(run.documentId, pageData)
                /\ IF run.result.usage.reported
                   THEN /\ runs' = [runs EXCEPT ![r].pc = "saveUsage",
                                                 ![r].inserted = @ \cup {run.pageNum},
                                                 ![r].durationMs = clock - run.startTime,
                                                 ![r].measuredAt = clock]
                   ELSE /\ runs' = [runs EXCEPT ![r] =
                              PageReturned([run EXCEPT !.inserted = @ \cup {run.pageNum}],
                                           pageData)]
           ELSE /\ runs' = [runs EXCEPT ![r] = PageThrew(run)]
                /\ UNCHANGED extractedPageData
    /\ UNCHANGED <<uploadDocuments, documentTokenUsage, files, requests,
                   errorLog, unhandled, lastRead, clock>>

\* await saveTokenUsage(documentId, {requestId, ..., totalTokens}, db)
RunSaveUsage(r, ok) ==
    /\ runs[r].pc = "saveUsage"
    /\ LET run == runs[r]
       IN  /\ IF ok
              THEN /\ documentTokenUsage' =
                         saveTokenUsage(run.documentId,
                             TokenUsageData(run.requestId, run.result.usage, run.durationMs))
                   /\ runs' = [runs EXCEPT ![r] =
                         PageReturned(run, PageData(run.pageNum, run.result.object))]
              ELSE /\ runs' = [runs EXCEPT ![r] = PageThrew(run)]
                   /\ UNCHANGED documentTokenUsage
    /\ UNCHANGED <<uploadDocuments, extractedPageData, files, requests,
                   errorLog, unhandled, lastRead, clock>>

\* A COMPLETED write after which the run falls through into the outer
\* catch instead of returning.
RunSetCompletedFallsThrough(r, ok) ==
    /\ runs[r].pc = "setCompleted"
    /\ uploadDocuments' =
          IF ok THEN updateDocumentStatus(runs[r].documentId, "COMPLETED", runs[r].extractionId)
                ELSE uploadDocuments
    /\ runs' = [runs EXCEPT ![r].pc = "setFailed", ![r].cause = "completed"]
    /\ UNCHANGED <<extractedPageData, documentTokenUsage, files, requests,
                   errorLog, unhandled, lastRead, clock>>

\* await updateDocumentStatus(documentId, "COMPLETED", extractionId, db);
\* return extractedPages
RunSetCompleted(r, ok) ==
    /\ runs[r].pc = "setCompleted"
    /\ IF ok
       THEN /\ uploadDocuments' =
                  updateDocumentStatus(runs[r].documentId, "COMPLETED", runs[r].extractionId)
            /\ runs' = [runs EXCEPT ![r].pc = "returned"]
       ELSE /\ runs' = [runs EXCEPT ![r].pc = "setFailed", ![r].cause = "completed"]
            /\ UNCHANGED uploadDocuments
    /\ UNCHANGED <<extractedPageData, documentTokenUsage, files, requests,
                   errorLog, unhandled, lastRead, clock>>

\* A handler that starts the run and attaches nothing to its promise.
CatchNotAttached(origin) == FALSE

\* The upload handler attaches .catch to the promise of the run it starts.
CatchAttached(origin) == origin = "http"

\* An outer catch that resets the document to IDEAL instead of FAILED.
RunSetFailedResets(r, ok) ==
    /\ runs[r].pc = "setFailed"
    /\ uploadDocuments' =
          IF ok THEN updateDocumentStatus(runs[r].documentId, "IDEAL", runs[r].extractionId)
                ELSE uploadDocuments
    /\ runs' = [runs EXCEPT ![r].pc = "rejected", ![r].rejectedWith = runs[r].cause]
    /\ errorLog' = errorLog \cup {r}
    /\ UNCHANGED <<extractedPageData, documentTokenUsage, files, requests, unhandled, lastRead, clock>>

\* The outer catch: await updateDocumentStatus(documentId, "FAILED",
\* extractionId, db); throw error.  Whether or not the write succeeds the
\* promise of the run rejects: with the caught error after the write, with
\* the write's own error when the write throws.
RunSetFailed(r, ok) ==
    /\ runs[r].pc = "setFailed"
    /\ uploadDocuments' =
          IF ok THEN updateDocumentStatus(runs[r].documentId, "FAILED", runs[r].extractionId)
                ELSE uploadDocuments
    /\ runs' = [runs EXCEPT ![r].pc = "rejected",
                             ![r].rejectedWith = IF ok THEN runs[r].cause ELSE "failed"]
    /\ IF CatchAttached(runs[r].origin)
       THEN errorLog' = errorLog \cup {r} /\ UNCHANGED unhandled
       ELSE unhandled' = unhandled \cup {r} /\ UNCHANGED errorLog
    /\ UNCHANGED <<extractedPageData, documentTokenUsage, files, requests, lastRead, clock>>

\* ------------------------------------------------------- specification
Next ==
    \/ \E in \in UploadInputs : in.userId = FirstUser /\ HttpUpload(in)
    \/ \E h \in Requests, ok \in BOOLEAN : HttpInsert(h, ok)
    \/ \E h \in Requests : HttpStartRun(h)
    \/ \E in \in UploadInputs, ok \in BOOLEAN :
          /\ Events < MaxEvents /\ in.userId = FirstUser
          /\ in.hasFile /\ in.hasFields /\ in.mimetype = PdfMime
          /\ TrpcUpload(in, ok)
    \/ \E d \in Documents : Retrigger(d)
    \/ \E r \in Runs, ok \in BOOLEAN : RunSetProcessing(r, ok)
    \/ \E r \in Runs : RunParse(r)
    \/ \E r \in Runs, answered \in BOOLEAN, res \in ModelResults :
          RunModel(r, answered, res)
    \/ \E r \in Runs, ok \in BOOLEAN : RunSavePage(r, ok)
    \/ \E r \in Runs, ok \in BOOLEAN : RunSaveUsage(r, ok)
    \/ \E r \in Runs, ok \in BOOLEAN : RunSetCompleted(r, ok)
    \/ \E r \in Runs, ok \in BOOLEAN : RunSetFailed(r, ok)

Spec == Init /\ [][Next]_vars

\* -------------------------------------------- the queries as steps
\* A query reads the store and answers the client; it writes nothing.
Query(op, input, outcome) ==
    /\ lastRead' = Read(op, input, outcome)
    /\ UNCHANGED <<uploadDocuments, extractedPageData, documentTokenUsage, files,
                   requests, runs, errorLog, unhandled, clock>>

GetDocument(documentId) ==
    Query("getDocument", [documentId |-> documentId], getDocument(documentId))

GetExtractionStatus(documentId) ==
    Query("getExtractionStatus", [documentId |-> documentId],
          getExtractionStatus(documentId))

GetDocumentsByUser(userId) ==
    Query("getDocumentsByUser", [userId |-> userId], getDocumentsByUser(userId))

GetExtractedData(documentId) ==
    Query("getExtractedData", [documentId |-> documentId],
          Returned(getExtractedData(documentId)))

ListDocuments(input) ==
    Query("listDocuments", input, listDocuments(input))

\* The document ids a client asks for: the first two the store gives out
\* and one it never gives out.
QueryIds == {1, 2, MaxListDocs + 1}

\* Uploads through documentRouter.upload (which starts no run) and
\* queries, in any order.  Uploads whose insert throws leave the tables
\* as they are and are left out here; every third upload is the second
\* user's.
NextReads ==
    \/ \E in \in UploadInputs :
          /\ Len(uploadDocuments) < MaxListDocs
          /\ in.hasFile /\ in.hasFields /\ in.mimetype = PdfMime /\ in.file = 1
          /\ in.userId = (IF Len(uploadDocuments) % 3 = 0 THEN "u2" ELSE FirstUser)
          /\ TrpcUpload(in, TRUE)
    \/ \E id \in QueryIds : GetDocument(id)
    \/ \E id \in QueryIds : GetExtractionStatus(id)
    \/ \E id \in QueryIds : GetExtractedData(id)
    \/ \E userId \in Users : GetDocumentsByUser(userId)
    \/ \E input \in ListInputs : ListDocuments(input)

SpecReads == Init /\ [][NextReads]_vars

\* ------------------------------------------ a run among other callers
\* One upload through each route (one-page PDFs, either user), the run the
\* HTTP handler starts, and the queries, in any order.
NextFrame ==
    \/ \E in \in UploadInputs, ok \in BOOLEAN :
          /\ \A h \in Requests : requests[h].route # "trpc"
          /\ Events < MaxEvents
          /\ in.hasFile /\ in.hasFields /\ in.mimetype = PdfMime /\ in.file = 1
          /\ TrpcUpload(in, ok)
    \/ \E in \in UploadInputs :
          /\ \A h \in Requests : requests[h].route # "http"
          /\ Passes(in) /\ in.file = 1
          /\ HttpUpload(in)
    \/ \E h \in Requests, ok \in BOOLEAN : HttpInsert(h, ok)
    \/ \E h \in Requests : HttpStartRun(h)
    \/ \E r \in Runs, ok \in BOOLEAN : RunSetProcessing(r, ok)
    \/ \E r \in Runs : RunParse(r)
    \/ \E r \in Runs, answered \in BOOLEAN, res \in ModelResults :
          RunModel(r, answered, res)
    \/ \E r \in Runs, ok \in BOOLEAN : RunSavePage(r, ok)
    \/ \E r \in Runs, ok \in BOOLEAN : RunSaveUsage(r, ok)
    \/ \E r \in Runs, ok \in BOOLEAN : RunSetCompleted(r, ok)
    \/ \E r \in Runs, ok \in BOOLEAN : RunSetFailed(r, ok)
    \/ \E id \in QueryIds : GetDocument(id)
    \/ \E id \in QueryIds : GetExtractionStatus(id)
    \/ \E id \in QueryIds : GetExtractedData(id)
    \/ \E userId \in Users : GetDocumentsByUser(userId)
    \/ \E input \in ListInputs : input.omitted /\ ListDocuments(input)

SpecFrame == Init /\ [][NextFrame]_vars

\* ------------------------------------------------- the process stops
\* A restart that sweeps the store and marks PROCESSING documents FAILED.
CrashRecovers ==
    /\ runs' = [r \in Runs |->
                  IF runs[r].pc \in {"returned", "rejected"}
                  THEN runs[r] ELSE [runs[r] EXCEPT !.pc = "abandoned"]]
    /\ requests' = [h \in Requests |->
                      IF requests[h].pc = "done" THEN requests[h]
                      ELSE [requests[h] EXCEPT !.pc = "aborted"]]
    /\ uploadDocuments' = [d \in Documents |->
                             IF uploadDocuments[d].extractionStatus = "PROCESSING"
                             THEN [uploadDocuments[d] EXCEPT !.extractionStatus = "FAILED"]
                             ELSE uploadDocuments[d]]
    /\ UNCHANGED <<extractedPageData, documentTokenUsage, files,
                   errorLog, unhandled, lastRead, clock>>

\* The server process stops and is started again: the runs and the handlers
\* in flight live in its memory only and are gone; the tables stay as they
\* are, and nothing at startup looks at them.
Crash ==
    /\ runs' = [r \in Runs |->
                  IF runs[r].pc \in {"returned", "rejected"}
                  THEN runs[r] ELSE [runs[r] EXCEPT !.pc = "abandoned"]]
    /\ requests' = [h \in Requests |->
                      IF requests[h].pc = "done" THEN requests[h]
                      ELSE [requests[h] EXCEPT !.pc = "aborted"]]
    /\ UNCHANGED <<uploadDocuments, extractedPageData, documentTokenUsage, files,
                   errorLog, unhandled, lastRead, clock>>

\* One upload of a one-page PDF through the HTTP handler and its run; the
\* process may stop at any moment; after a stop the run may be called
\* again for the document.
NextCrash ==
    \/ Crash
    \/ \E in \in UploadInputs :
          /\ requests = <<>> /\ Passes(in) /\ in.file = 1 /\ in.userId = FirstUser
          /\ HttpUpload(in)
    \/ \E h \in Requests, ok \in BOOLEAN : HttpInsert(h, ok)
    \/ \E h \in Requests : HttpStartRun(h)
    \/ \E d \in Documents :
          (\E r \in Runs : runs[r].pc = "abandoned") /\ Retrigger(d)
    \/ \E r \in Runs, ok \in BOOLEAN : RunSetProcessing(r, ok)
    \/ \E r \in Runs : RunParse(r)
    \/ \E r \in Runs, answered \in BOOLEAN, res \in ModelResults :
          RunModel(r, answered, res)
    \/ \E r \in Runs, ok \in BOOLEAN : RunSavePage(r, ok)
    \/ \E r \in Runs, ok \in BOOLEAN : RunSaveUsage(r, ok)
    \/ \E r \in Runs, ok \in BOOLEAN : RunSetCompleted(r, ok)
    \/ \E r \in Runs, ok \in BOOLEAN : RunSetFailed(r, ok)

SpecCrash == Init /\ [][NextCrash]_vars

\* ------------------------------------------------ a run under the clock
\* Time passes: a millisecond between two steps of the program.
Tick ==
    /\ clock' = clock + 1
    /\ UNCHANGED <<uploadDocuments, extractedPageData, documentTokenUsage, files,
                   requests, runs, errorLog, unhandled, lastRead>>

\* One upload of a PDF through the HTTP handler and the run it starts,
\* with time passing between any two steps.
NextClock ==
    \/ clock < MaxClock /\ Tick
    \/ \E in \in UploadInputs :
          /\ requests = <<>> /\ Passes(in) /\ in.file # Corrupt /\ in.userId = FirstUser
          /\ HttpUpload(in)
    \/ \E h \in Requests, ok \in BOOLEAN : HttpInsert(h, ok)
    \/ \E h \in Requests : HttpStartRun(h)
    \/ \E r \in Runs, ok \in BOOLEAN : RunSetProcessing(r, ok)
    \/ \E r \in Runs : RunParse(r)
    \/ \E r \in Runs, answered \in BOOLEAN, res \in ModelResults :
          RunModel(r, answered, res)
    \/ \E r \in Runs, ok \in BOOLEAN : RunSavePage(r, ok)
    \/ \E r \in Runs, ok \in BOOLEAN : RunSaveUsage(r, ok)
    \/ \E r \in Runs, ok \in BOOLEAN : RunSetCompleted(r, ok)
    \/ \E r \in Runs, ok \in BOOLEAN : RunSetFailed(r, ok)

SpecClock == Init /\ [][NextClock]_vars

\* ------------------------------------------------------------- vocabulary of the properties
Finished(run) == run.pc \in {"returned", "rejected"}

\* The page loop of the run is over (every page was attempted).
LoopDone(run) == run.pc \in {"setCompleted", "returned"} \/ run.cause = "completed"

PagesOf(d) == {row \in extractedPageData : row.documentId = d}
UsageOf(d) == {u \in documentTokenUsage : u.documentId = d}
RunsOn(d) == {r \in Runs : runs[r].documentId = d}

IsPlaceholderRow(row) ==
    /\ row.containerNumbers = <<>>
    /\ row.containerSizes = <<>>
    /\ row.fullEmptyStatuses = <<>>
    /\ row.unsureFields = <<"*all*">>

Terminal == {"COMPLETED", "FAILED"}

Rank(status) ==
    CASE status = "IDEAL" -> 0
      [] status = "PROCESSING" -> 1
      [] OTHER -> 2

\* ------------------------------------------------------------- C1
\* C1 as claimed: whenever the extraction of page k of a run threw, a
\* placeholder Page Record for (documentId, k) is in the store (the three
\* arrays empty, unsureFields = ["*all*"]) and the run has gone on to page k+1.
C1_PlaceholderPersisted ==
    \A r \in Runs : \A k \in runs[r].threw :
        /\ \E row \in PagesOf(runs[r].documentId) :
               row.pageNumber = k /\ IsPlaceholderRow(row)
        /\ runs[r].pageNum > k

\* ------------------------------------------------------------- C2
\* C2 as claimed, for the runs that returned normally: the store holds
\* exactly N Page Records for the document, their page numbers are 1..N, and
\* the status is COMPLETED or FAILED.
C2_ExactlyNPageRecords ==
    \A r \in Runs :
        runs[r].pc = "returned" =>
            LET d == runs[r].documentId
            IN  /\ Cardinality(PagesOf(d)) = runs[r].numPages
                /\ {row.pageNumber : row \in PagesOf(d)} = 1..runs[r].numPages
                /\ uploadDocuments[d].extractionStatus \in Terminal

\* ------------------------------------------------------------- C3
\* C3: a run enters the outer catch (the only place that writes FAILED and
\* rejects) only because the PROCESSING write, the page count or the
\* COMPLETED write threw, never because a page threw; and a run whose three
\* steps succeeded has attempted every page 1..N once, in order, has one
\* entry per page, and the status it wrote last is COMPLETED.
C3_PageFailureNeverFailsRun ==
    \A r \in Runs :
        LET run == runs[r] IN
        /\ run.pc \in {"setFailed", "rejected"} =>
               run.cause \in {"processing", "parse", "completed"}
        /\ run.pc = "returned" =>
               /\ run.cause = "none"
               /\ Len(run.calls) = run.numPages
               /\ \A k \in 1..run.numPages : run.calls[k].pageNumber = k
               /\ Len(run.extractedPages) = run.numPages
               /\ uploadDocuments[run.documentId].extractionId = run.extractionId =>
                      uploadDocuments[run.documentId].extractionStatus = "COMPLETED"

\* A run over two pages, both of which threw, returned and left COMPLETED.
C3_Witness ==
    \E r \in Runs :
        /\ runs[r].pc = "returned"
        /\ runs[r].numPages = 2
        /\ runs[r].threw = {1, 2}
        /\ uploadDocuments[runs[r].documentId].extractionStatus = "COMPLETED"
        /\ uploadDocuments[runs[r].documentId].extractionId = runs[r].extractionId

\* ------------------------------------------------------------- C4
\* C4: the stored status of a document never moves back in the order
\* IDEAL < PROCESSING < {COMPLETED, FAILED}, except by the PROCESSING write
\* with which an attempt begins on a document that has another attempt too;
\* a document with a single attempt never moves back.
\* (A poller reads the stored value, so its readings are a subsequence of
\* the stored values.)
C4_StatusMonotone ==
    [][\A d \in Documents :
          Rank(uploadDocuments'[d].extractionStatus) < Rank(uploadDocuments[d].extractionStatus)
          => \E r \in RunsOn(d), other \in RunsOn(d) :
                /\ other # r
                /\ runs[r].pc = "setProcessing" /\ runs'[r].pc = "parse"
                /\ uploadDocuments'[d].extractionStatus = "PROCESSING"]_vars

\* A run has taken its document through PROCESSING to FAILED.
C4_Witness ==
    \E r \in Runs :
        /\ runs[r].pc = "rejected" /\ runs[r].cause = "parse"
        /\ uploadDocuments[runs[r].documentId].extractionStatus = "FAILED"
        /\ uploadDocuments[runs[r].documentId].extractionId = runs[r].extractionId

\* ------------------------------------------------------------- C5
\* C5 as claimed, in the form a finite run refutes: a document whose upload
\* was answered and for which nothing is outstanding any more (no handler
\* step, no unfinished run) has the status COMPLETED or FAILED.  In such a
\* state nothing the system does by itself changes the status again.
C5_QuiescentIsTerminal ==
    \A h \in Requests :
        LET d == requests[h].documentId IN
        (/\ requests[h].pc = "done" /\ d # NoDoc
         /\ \A r \in RunsOn(d) : Finished(runs[r]))
        => uploadDocuments[d].extractionStatus \in Terminal

\* ------------------------------------------------------------- C6
\* C6: the HTTP handler sends its success response in the step that starts
\* the run, when the run has not finished and the status is IDEAL or
\* PROCESSING; a response once sent never changes, whatever the run does;
\* and a rejection of the handler's run is never left unhandled.
C6_ResponseBeforeRunEnds ==
    [][/\ \A h \in Requests :
             /\ requests[h].response # NoResponse =>
                    requests'[h].response = requests[h].response
             /\ (requests[h].route = "http" /\ requests[h].response = NoResponse
                    /\ requests'[h].response.code = 200) =>
                    \E r \in 1..Len(runs') :
                        /\ runs'[r].documentId = requests[h].documentId
                        /\ runs'[r].origin = "http"
                        /\ ~Finished(runs'[r])
                        /\ r \notin Runs
                        /\ uploadDocuments'[requests[h].documentId].extractionStatus
                               \in {"IDEAL", "PROCESSING"}
       /\ \A r \in unhandled' : runs'[r].origin # "http"]_vars

\* The handler's run was rejected after the response was sent: the
\* response is still the success response and the error went to the log.
C6_Witness ==
    \E h \in Requests, r \in Runs :
        /\ requests[h].route = "http" /\ requests[h].response.code = 200
        /\ runs[r].documentId = requests[h].documentId /\ runs[r].origin = "http"
        /\ runs[r].pc = "rejected"
        /\ r \in errorLog

C8_NonPdfRejected ==
    /\ [][\A h \in 1..Len(requests') :
            (h \notin Requests /\ requests'[h].route = "http"
               /\ requests'[h].hasFile /\ requests'[h].mimetype # PdfMime)
            => UNCHANGED <<uploadDocuments, extractedPageData, documentTokenUsage,
                           files, runs>>]_vars
    /\ [](\A h \in Requests :
             (requests[h].route = "http" /\ requests[h].hasFile
                /\ requests[h].mimetype # PdfMime)
             => /\ requests[h].documentId = NoDoc
                /\ requests[h].pc = "done"
                /\ requests[h].response.code # 200
                /\ requests[h].response # NoResponse)

\* A non-PDF upload has been answered while the store holds a document.
C8_Witness ==
    \E h \in Requests :
        /\ requests[h].route = "http" /\ requests[h].hasFile
        /\ requests[h].mimetype # PdfMime
        /\ requests[h].response = ErrorResponse(500, "Only PDF files are allowed")
        /\ Len(uploadDocuments) = 1

\* ------------------------------------------------------------- C9
\* C9: when the page loop of a run over N pages is over, every model call
\* reported usage and no page threw (so every insert succeeded), the store
\* holds exactly N Usage Records for the document, with N distinct request
\* ids, and for each page k exactly one of them has the request id of the
\* call for page k, carrying the total token count that call reported.
C9_OneUsageRecordPerPage ==
    \A r \in Runs :
        LET run == runs[r]
            d == run.documentId
        IN  (/\ LoopDone(run)
             /\ run.threw = {}
             /\ \A i \in 1..Len(run.calls) : run.calls[i].usage.reported)
            => /\ Cardinality(UsageOf(d)) = run.numPages
               /\ Cardinality({u.requestId : u \in UsageOf(d)}) = run.numPages
               /\ \A k \in 1..run.numPages :
                      /\ run.calls[k].pageNumber = k
                      /\ Cardinality({u \in UsageOf(d) :
                                        u.requestId = run.calls[k].requestId}) = 1
                      /\ \A u \in UsageOf(d) :
                             u.requestId = run.calls[k].requestId =>
                                u.totalTokens = run.calls[k].usage.totalTokens

\* A two-page run whose calls reported 100 and 150 tokens has returned.
C9_Witness ==
    \E r \in Runs :
        /\ runs[r].pc = "returned" /\ runs[r].numPages = 2 /\ runs[r].threw = {}
        /\ runs[r].calls[1].usage = Usage(100)
        /\ runs[r].calls[2].usage = Usage(150)
        /\ Cardinality(UsageOf(runs[r].documentId)) = 2

\* ------------------------------------------------------------- C10
\* C10 as claimed: in every persisted Page Record the three container
\* arrays have the same length.
C10_ParallelArraysEqualLength ==
    \A row \in extractedPageData :
        /\ Len(row.containerNumbers) = Len(row.containerSizes)
        /\ Len(row.containerSizes) = Len(row.fullEmptyStatuses)

\* ------------------------------------------------------------- C11
\* C11: whatever runs have been started on a document, the store holds at
\* most one Page Record per (documentId, pageNumber), and a Page Record,
\* once inserted, stays in the store with the contents it was inserted with.
C11_OnePageRecordPerKey ==
    /\ [](\A a, b \in extractedPageData :
             (a.documentId = b.documentId /\ a.pageNumber = b.pageNumber) => a = b)
    /\ [][extractedPageData \subseteq extractedPageData']_vars

\* A second run on a document called the model for a page another run had
\* already inserted, and its insert was refused.
C11_Witness ==
    \E r, s \in Runs :
        /\ r # s /\ runs[r].documentId = runs[s].documentId
        /\ 1 \in runs[r].inserted
        /\ 1 \in runs[s].threw
        /\ Len(runs[s].calls) >= 1 /\ runs[s].calls[1].returned
        /\ runs[s].calls[1].usage # runs[r].calls[1].usage
        /\ Cardinality(PagesOf(runs[r].documentId)) = 1

\* ------------------------------------------------------------- C12
\* The entries of a list that carry page number k.
EntriesForPage(list, k) == {i \in 1..Len(list) : list[i].pageNumber = k}

\* C12: for every page whose model call returned an object that passed the
\* schema and whose insert succeeded, getExtractedData of the document has
\* exactly one entry for the page, and its three container arrays and its
\* unsure-field list are the ones the model call returned (same lengths,
\* same positions, nulls kept), whatever happened to the other pages.
C12_ReadBackWhatModelReturned ==
    \A r \in Runs : \A k \in runs[r].inserted :
        LET list == getExtractedData(runs[r].documentId)
            call == runs[r].calls[k]
        IN  /\ call.pageNumber = k /\ call.returned
            /\ Cardinality(EntriesForPage(list, k)) = 1
            /\ \A i \in EntriesForPage(list, k) :
                  /\ list[i].containerNumbers = call.object.containerNumbers
                  /\ list[i].containerSizes = call.object.containerSizes
                  /\ list[i].fullEmptyStatuses = call.object.fullEmptyStatuses
                  /\ list[i].unsureFields = call.object.unsureFields

\* Page 2 of a run was inserted with two containers, one of them with null
\* entries, after page 1 of the same run had thrown.
C12_Witness ==
    \E r \in Runs :
        /\ runs[r].inserted = {2} /\ runs[r].threw = {1}
        /\ Len(getExtractedData(runs[r].documentId)) = 1
        /\ Len(getExtractedData(runs[r].documentId)[1].containerNumbers) = 2
        /\ NULL \in {getExtractedData(runs[r].documentId)[1].containerSizes[i] : i \in 1..2}

\* ------------------------------------------------------------- C13
\* C13: a getDocument or getExtractionStatus for an id no document has
\* fails with the error "Document not found", returns nothing, and leaves
\* every table as it was.
C13_NotFound ==
    [][(/\ lastRead' # lastRead
        /\ lastRead'.op \in {"getDocument", "getExtractionStatus"}
        /\ \A d \in Documents : uploadDocuments[d].documentId # lastRead'.input.documentId)
       => /\ lastRead'.error = "Document not found"
          /\ lastRead'.data = <<>>
          /\ UNCHANGED <<uploadDocuments, extractedPageData, documentTokenUsage>>]_vars

\* getExtractionStatus was asked for an id that no document of a store
\* with two documents has, and failed.
C13_Witness ==
    /\ Len(uploadDocuments) = 2
    /\ lastRead.op = "getExtractionStatus"
    /\ lastRead.input.documentId \notin Documents
    /\ lastRead.error = "Document not found"

\* ------------------------------------------------------------- C14
\* The limit and the offset a listDocuments input stands for.
EffectiveLimit(input) ==
    IF input.omitted \/ input.limit = Undefined THEN 20 ELSE input.limit
EffectiveOffset(input) ==
    IF input.omitted \/ input.offset = Undefined THEN 0 ELSE input.offset

\* The documents created later than the given row.
NewerThan(row) == {d \in Documents : uploadDocuments[d].createdAt > row.createdAt}

\* C14: a listDocuments with 1 <= limit <= 100 and offset >= 0 (omitted:
\* limit 20, offset 0) returns the documents at positions offset+1 ..
\* offset+limit of the list of all documents ordered newest first: entry i
\* is the stored row that has exactly offset+i-1 newer documents, and the
\* list ends after limit entries or with the oldest document.
C14_ListDocumentsWindow ==
    [][(/\ lastRead' # lastRead
        /\ lastRead'.op = "listDocuments"
        /\ ListInputValid(lastRead'.input))
       => LET limit == EffectiveLimit(lastRead'.input)
              offset == EffectiveOffset(lastRead'.input)
              n == Len(uploadDocuments)
              data == lastRead'.data
          IN  /\ lastRead'.error = ""
              /\ Len(data) = IF n - offset <= 0 THEN 0
                             ELSE IF n - offset < limit THEN n - offset ELSE limit
              /\ \A i \in 1..Len(data) :
                    /\ \E d \in Documents : data[i] = uploadDocuments[d]
                    /\ Cardinality(NewerThan(data[i])) = offset + i - 1]_vars

\* Of five documents, limit 2 at offset 2 returned the third and the fourth
\* newest.
C14_Witness ==
    /\ Len(uploadDocuments) = 5
    /\ lastRead.op = "listDocuments"
    /\ ~lastRead.input.omitted
    /\ lastRead.input.limit = 2 /\ lastRead.input.offset = 2
    /\ Len(lastRead.data) = 2
    /\ lastRead.data[1].documentId = 3 /\ lastRead.data[2].documentId = 2

\* With more than twenty documents in the store, a listDocuments without
\* input returned twenty.
C14_WitnessDefault ==
    /\ Len(uploadDocuments) = MaxListDocs
    /\ lastRead.op = "listDocuments" /\ lastRead.input.omitted
    /\ Len(lastRead.data) = 20

\* ------------------------------------------------------------- C15
\* C15: at every moment, also while runs are inserting pages, for every
\* document id getExtractedData returns each Page Record of that document
\* exactly once and nothing else, in strictly ascending page-number order;
\* for an id without Page Records it returns the empty list.
C15_PagesOfDocumentAscending ==
    \A id \in Documents \cup {NoDoc, Len(uploadDocuments) + 1} :
        LET list == getExtractedData(id)
        IN  /\ {list[i] : i \in 1..Len(list)} = PagesOf(id)
            /\ Len(list) = Cardinality(PagesOf(id))
            /\ \A i \in 1..Len(list) : list[i].documentId = id
            /\ \A i \in 1..(Len(list) - 1) : list[i].pageNumber < list[i + 1].pageNumber
            /\ PagesOf(id) = {} => list = <<>>

\* Page 2 of a document was inserted by one run and page 1 by another run
\* that is still at work; the query lists page 1 before page 2.
C15_Witness ==
    \E r, s \in Runs :
        /\ runs[r].documentId = runs[s].documentId
        /\ runs[r].inserted = {2} /\ runs[s].inserted = {1}
        /\ runs[s].pc \in {"model", "savePage", "saveUsage"}
        /\ Len(getExtractedData(runs[r].documentId)) = 2
        /\ getExtractedData(runs[r].documentId)[1].pageNumber = 1

\* ------------------------------------------------------------- C16
\* The run is past its PROCESSING write and not yet past its page loop.
InPageWork(run) == run.pc \in {"parse", "model", "savePage", "saveUsage"}

\* C16: a run enters its page work (page count, model calls, inserts) only
\* by the step that writes PROCESSING with the run's extraction id, which
\* no other run has; and while a run that has overlapped no other run on
\* its document is in its page work, the document's stored status is
\* PROCESSING with that run's id.
C16_ProcessingWhilePageWork ==
    /\ [][\A r \in Runs :
            (~InPageWork(runs[r]) /\ InPageWork(runs'[r]))
            => /\ runs[r].pc = "setProcessing" /\ runs'[r].pc = "parse"
               /\ runs[r].calls = <<>> /\ runs[r].inserted = {}
               /\ uploadDocuments'[runs[r].documentId].extractionStatus = "PROCESSING"
               /\ uploadDocuments'[runs[r].documentId].extractionId = runs[r].extractionId]_vars
    /\ [](\A r, s \in Runs : r # s => runs[r].extractionId # runs[s].extractionId)
    /\ [](\A r \in Runs :
             (InPageWork(runs[r]) /\ ~runs[r].overlapped)
             => /\ uploadDocuments[runs[r].documentId].extractionStatus = "PROCESSING"
                /\ uploadDocuments[runs[r].documentId].extractionId = runs[r].extractionId)

\* A second run on a document, started after the first run had completed,
\* is saving a page while the status is PROCESSING with the second run's id.
C16_Witness ==
    \E r, s \in Runs :
        /\ r < s /\ runs[r].documentId = runs[s].documentId
        /\ runs[r].pc = "returned" /\ ~runs[s].overlapped
        /\ runs[s].pc = "savePage"
        /\ uploadDocuments[runs[s].documentId].extractionStatus = "PROCESSING"
        /\ uploadDocuments[runs[s].documentId].extractionId = runs[s].extractionId

\* ------------------------------------------------------------- C17
\* C17 as claimed: a run whose page count could not be determined has made
\* no model call and inserted no Page Record and no Usage Record, and the
\* step that ends it stores FAILED with the run's extraction id and
\* rejects with the error of the page count.
C17_PageCountFailure ==
    [][\A r \in Runs :
          (runs[r].cause = "parse" /\ runs[r].pc = "setFailed" /\ runs'[r].pc = "rejected")
          => /\ runs'[r].calls = <<>> /\ runs'[r].inserted = {}
             /\ \A u \in documentTokenUsage' : u.requestId[1] # runs[r].extractionId
             /\ uploadDocuments'[runs[r].documentId].extractionStatus = "FAILED"
             /\ uploadDocuments'[runs[r].documentId].extractionId = runs[r].extractionId
             /\ runs'[r].rejectedWith = "parse"]_vars

\* The same with the FAILED write taken to succeed: holds.
C17_PageCountFailureWritten ==
    [][\A r \in Runs :
          (/\ runs[r].cause = "parse" /\ runs[r].pc = "setFailed" /\ runs'[r].pc = "rejected"
           /\ runs'[r].rejectedWith # "failed")
          => /\ runs'[r].calls = <<>> /\ runs'[r].inserted = {}
             /\ \A u \in documentTokenUsage' : u.requestId[1] # runs[r].extractionId
             /\ uploadDocuments'[runs[r].documentId].extractionStatus = "FAILED"
             /\ uploadDocuments'[runs[r].documentId].extractionId = runs[r].extractionId
             /\ runs'[r].rejectedWith = "parse"]_vars

\* ------------------------------------------------------------- C18
\* A page extraction of the run is in flight: its model call, its page
\* insert or its usage insert is awaited.
InFlight(run) == run.pc \in {"model", "savePage", "saveUsage"}

\* C18 as claimed: at every moment at most one page extraction is in flight
\* for a document.
C18_OneExtractionPerDocument ==
    \A d \in Documents :
        Cardinality({r \in RunsOn(d) : InFlight(runs[r])}) <= 1

\* C18, amended: within one run the pages are extracted one at a time in
\* the order 1, 2, .., N: the extraction in flight is that of the page
\* after the pages that have returned or thrown, the model calls made so
\* far are those of pages 1, 2, .. in this order, a step moves the run
\* from page k to page k or k+1 only, and a run whose loop is over has
\* called the model once for each of its N pages.  Two extractions in
\* flight for one document belong to two runs that overlap.
C18_OneExtractionPerRun ==
    /\ [](\A r \in Runs :
             LET run == runs[r]
             IN  /\ \A i \in 1..Len(run.calls) : run.calls[i].pageNumber = i
                 /\ \A i \in 1..Len(run.extractedPages) : run.extractedPages[i].pageNumber = i
                 /\ InFlight(run) =>
                       /\ run.pageNum \in 1..run.numPages
                       /\ Len(run.extractedPages) = run.pageNum - 1
                       /\ Len(run.calls) \in {run.pageNum - 1, run.pageNum}
                 /\ LoopDone(run) => Len(run.calls) = run.numPages)
    /\ [](\A r, s \in Runs :
             (r # s /\ runs[r].documentId = runs[s].documentId
                /\ InFlight(runs[r]) /\ InFlight(runs[s]))
             => runs[r].overlapped /\ runs[s].overlapped)
    /\ [][\A r \in Runs :
            /\ (InFlight(runs[r]) /\ InFlight(runs'[r]))
                  => runs'[r].pageNum \in {runs[r].pageNum, runs[r].pageNum + 1}
            /\ (~InFlight(runs[r]) /\ InFlight(runs'[r])) => runs'[r].pageNum = 1]_vars

\* A run that overlapped no other run is calling the model for page 2 after
\* page 1 has returned.
C18_Witness ==
    \E r \in Runs :
        /\ runs[r].pc = "model" /\ runs[r].pageNum = 2 /\ ~runs[r].overlapped
        /\ runs[r].inserted = {1} /\ Len(runs[r].extractedPages) = 1

\* ------------------------------------------------------------- C19
\* The page numbers persisted for a document.
PageNumbersOf(d) == {row.pageNumber : row \in PagesOf(d)}

\* C19 as claimed: in every reachable state the page numbers persisted for
\* a document are 1..k for some k between 0 and the page count: no page is
\* persisted while a page before it is missing.
C19_PersistedPagesArePrefix ==
    \A d \in Documents :
        \E k \in 0..MaxPages : PageNumbersOf(d) = 1..k

\* ------------------------------------------------------------- C20
\* The attempt of the run at the page of its i-th model call is over.
AttemptOver(run, i) == ~(InFlight(run) /\ run.pageNum = run.calls[i].pageNumber)

\* C20 as claimed: for every model call that returned and reported usage,
\* once the attempt at its page is over the store holds a Usage Record with
\* the call's request id, also when the page insert failed (left aside:
\* attempts whose usage insert itself threw, after the page was inserted).
C20_UsageRecordForEveryReturnedCall ==
    \A r \in Runs : \A i \in 1..Len(runs[r].calls) :
        LET run == runs[r]
            call == run.calls[i]
        IN  (/\ call.returned /\ call.usage.reported
             /\ AttemptOver(run, i)
             /\ ~(call.pageNumber \in run.inserted /\ call.pageNumber \in run.threw))
            => \E u \in UsageOf(run.documentId) :
                   u.requestId = call.requestId /\ u.totalTokens = call.usage.totalTokens

\* Usage Records are only appended.  Holds.
C20_UsageAppendOnly == [][documentTokenUsage \subseteq documentTokenUsage']_vars

\* ------------------------------------------------------------- C21
\* The i-th model call of the run was answered with an object that did not
\* pass the schema.
AnsweredInvalid(run, i) == run.calls[i].answered /\ ~run.calls[i].returned

\* The latest model call of the run did not return (error or invalid answer).
LastCallFailed(run) == run.calls # <<>> /\ ~run.calls[Len(run.calls)].returned

\* C21: the step in which a model call fails, on an answer that does not
\* pass the schema just as on a transport error, writes to no table and
\* takes the run to the next page (or past the last one); no Page Record
\* ever carries a status outside FULL, EMPTY and null; and for a call
\* answered with an invalid object the run inserts no Page Record for the
\* page and no Usage Record with the call's request id exists.
C21_InvalidAnswerFailsPage ==
    /\ [][\A r \in Runs :
            (Len(runs'[r].calls) > Len(runs[r].calls) /\ LastCallFailed(runs'[r]))
            => /\ UNCHANGED <<uploadDocuments, extractedPageData, documentTokenUsage>>
               /\ runs'[r].pageNum = runs[r].pageNum + 1
               /\ runs'[r].pc \in {"model", "setCompleted"}
               /\ runs'[r].threw = runs[r].threw \cup {runs[r].pageNum}
               /\ runs'[r].extractedPages =
                     Append(runs[r].extractedPages, PlaceholderPage(runs[r].pageNum))]_vars
    /\ [](\A row \in extractedPageData :
             \A i \in 1..Len(row.fullEmptyStatuses) :
                 row.fullEmptyStatuses[i] \in {"FULL", "EMPTY", NULL})
    /\ [](\A r \in Runs : \A i \in 1..Len(runs[r].calls) :
             AnsweredInvalid(runs[r], i)
             => /\ runs[r].calls[i].pageNumber \notin runs[r].inserted
                /\ runs[r].calls[i].pageNumber \in runs[r].threw
                /\ \A u \in documentTokenUsage : u.requestId # runs[r].calls[i].requestId)

\* Page 1 of a two-page run was answered with an invalid object; the run
\* went on, page 2 was inserted, and the store holds no row for page 1.
C21_Witness ==
    \E r \in Runs :
        /\ runs[r].numPages = 2 /\ Len(runs[r].calls) = 2
        /\ AnsweredInvalid(runs[r], 1)
        /\ runs[r].inserted = {2}
        /\ PageNumbersOf(runs[r].documentId) = {2}

\* ------------------------------------------------------------- C22
\* C22: within one run the model is called at most once per page number
\* (at most N times for N pages); a page that threw is behind the run's
\* current page from then on; a finished run takes no further step; and a
\* run is added only by a call from outside: the upload handler answering
\* an accepted upload of a new document, or a direct call.
C22_NoRetries ==
    /\ [](\A r \in Runs :
             /\ Len(runs[r].calls) <= runs[r].numPages
             /\ \A i, j \in 1..Len(runs[r].calls) :
                    i # j => runs[r].calls[i].pageNumber # runs[r].calls[j].pageNumber
             /\ \A k \in runs[r].threw : runs[r].pageNum > k)
    /\ [][\A r \in Runs :
            /\ Finished(runs[r]) => runs'[r] = runs[r]
            /\ runs'[r].pageNum >= runs[r].pageNum
            /\ Len(runs'[r].calls) >= Len(runs[r].calls)]_vars
    /\ [][Len(runs') > Len(runs)
          => /\ Len(runs') = Len(runs) + 1
             /\ \/ runs'[Len(runs')].origin = "direct" /\ Events' = Events + 1
                \/ /\ runs'[Len(runs')].origin = "http"
                   /\ RunsOn(runs'[Len(runs')].documentId) = {}
                   /\ \E h \in Requests :
                         /\ requests[h].pc = "created" /\ requests'[h].pc = "done"
                         /\ requests[h].documentId = runs'[Len(runs')].documentId]_vars

\* A run over two pages was rejected after both of its pages had thrown,
\* having called the model twice, and nothing else has been started.
C22_Witness ==
    \E r \in Runs :
        /\ runs[r].pc = "rejected" /\ runs[r].numPages = 2
        /\ runs[r].threw = {1, 2} /\ Len(runs[r].calls) = 2
        /\ Len(runs) = 1

\* ------------------------------------------------------------- C23
\* C23 as claimed: the durationMs of the Usage Record written for a page is
\* the time from the moment extractPageData was called for that page to the
\* moment the duration was measured.
C23_DurationSincePageCall ==
    [][\A r \in Runs : \A u \in documentTokenUsage' \ documentTokenUsage :
          u.requestId = runs[r].requestId
          => u.durationMs = runs[r].measuredAt - runs[r].pageStart]_vars

\* What the code stores: the time since the run began.  Holds.
C23_DurationSinceRunStart ==
    [][\A r \in Runs : \A u \in documentTokenUsage' \ documentTokenUsage :
          u.requestId = runs[r].requestId
          => u.durationMs = runs[r].measuredAt - runs[r].startTime]_vars

\* The Usage Record of page 2 holds a duration although no time passed
\* after extractPageData was called for page 2.
C23_PageTwoCarriesPageOne ==
    \E r \in Runs : \E u \in documentTokenUsage :
        /\ runs[r].numPages = 2 /\ Len(runs[r].calls) = 2
        /\ u.requestId = runs[r].calls[2].requestId
        /\ runs[r].measuredAt = runs[r].pageStart
        /\ u.durationMs > 0

\* ------------------------------------------------------------- C24
\* Run r makes one of its three status writes in this step.
StatusWriteBy(r) ==
    /\ runs[r].pc \in {"setProcessing", "setCompleted", "setFailed"}
    /\ runs'[r].pc # runs[r].pc

\* C24: a query leaves every Document row as it is; so does a step that
\* inserts a Page Record or a Usage Record; rows are never removed; and a
\* row changes only in a status write of a run on that document, which
\* sets the status and the run's extraction id on that row and leaves its
\* other columns and every other document's row unchanged.
C24_DocumentRowFrame ==
    /\ [][lastRead' # lastRead => UNCHANGED uploadDocuments]_vars
    /\ [][(extractedPageData' # extractedPageData \/ documentTokenUsage' # documentTokenUsage)
          => UNCHANGED uploadDocuments]_vars
    /\ [][/\ Len(uploadDocuments') >= Len(uploadDocuments)
          /\ \A d \in Documents :
                uploadDocuments'[d] # uploadDocuments[d]
                => /\ \E r \in RunsOn(d) :
                         /\ StatusWriteBy(r)
                         /\ uploadDocuments'[d].extractionId = runs[r].extractionId
                   /\ uploadDocuments'[d] =
                         [uploadDocuments[d] EXCEPT
                             !.extractionStatus = uploadDocuments'[d].extractionStatus,
                             !.extractionId = uploadDocuments'[d].extractionId]
                   /\ \A e \in Documents \ {d} : uploadDocuments'[e] = uploadDocuments[e]]_vars

\* A run has completed on one of two documents and inserted its page, the
\* other document is still IDEAL, and the latest query asked for the
\* second user's documents.
C24_Witness ==
    /\ Len(uploadDocuments) = 2
    /\ \E d, e \in Documents :
          /\ uploadDocuments[d].extractionStatus = "COMPLETED" /\ PagesOf(d) # {}
          /\ uploadDocuments[e].extractionStatus = "IDEAL"
    /\ lastRead.op = "getDocumentsByUser" /\ lastRead.input.userId = "u2"
    /\ Len(lastRead.data) = 1

\* ------------------------------------------------------------- C25
\* C25: nothing guards a document against a second run: whatever its
\* status and whatever runs on it are unfinished, extractPODDataFromPDF can
\* be called on a document whose upload has been answered (as long as the
\* model's budget of outside calls lasts).
C25_NoMutualExclusion ==
    \A d \in Documents :
        (/\ Events < MaxEvents
         /\ \A h \in Requests : requests[h].documentId = d => requests[h].pc = "done")
        => ENABLED Retrigger(d)

\* Two runs were started on a document while both were unfinished; one has
\* returned and its COMPLETED is the stored status, while the other is
\* still awaiting a model call.
C25_Witness ==
    \E r, s \in Runs :
        /\ r # s /\ runs[r].documentId = runs[s].documentId
        /\ runs[r].overlapped /\ runs[s].overlapped
        /\ runs[r].pc = "returned"
        /\ runs[s].pc = "model"
        /\ uploadDocuments[runs[r].documentId].extractionStatus = "COMPLETED"
        /\ uploadDocuments[runs[r].documentId].extractionId = runs[r].extractionId

\* ------------------------------------------------------------- C26
\* The run was abandoned by a stop of the process.
Abandoned(run) == run.pc = "abandoned"

\* No run on the document is live, now and after the step, and no run is
\* started on it in the step.
NoLiveRun(d) ==
    /\ \A r \in RunsOn(d) : Finished(runs[r]) \/ Abandoned(runs[r])
    /\ Len(runs') = Len(runs)
    /\ \A r \in RunsOn(d) : Finished(runs'[r]) \/ Abandoned(runs'[r])

\* C26: a stop of the process changes no table; and for a document that is
\* PROCESSING under the id of an abandoned run, every step in which no run
\* is live or started on the document leaves the row PROCESSING under that
\* id, leaves its Page Records as they are, and leaves the run abandoned.
C26_AbandonedStaysProcessing ==
    /\ [][(\E r \in Runs : ~Abandoned(runs[r]) /\ Abandoned(runs'[r]))
          => UNCHANGED <<uploadDocuments, extractedPageData, documentTokenUsage>>]_vars
    /\ [][\A r \in Runs :
            LET d == runs[r].documentId
            IN  (/\ Abandoned(runs[r])
                 /\ uploadDocuments[d].extractionStatus = "PROCESSING"
                 /\ uploadDocuments[d].extractionId = runs[r].extractionId
                 /\ NoLiveRun(d))
                => /\ uploadDocuments'[d] = uploadDocuments[d]
                   /\ {row \in extractedPageData' : row.documentId = d} = PagesOf(d)
                   /\ runs'[r] = runs[r]]_vars

\* The process stopped while a run was awaiting its usage insert: the page
\* it had inserted is in the store and the document is PROCESSING under
\* the abandoned run's id.
C26_Witness ==
    \E r \in Runs :
        /\ Abandoned(runs[r]) /\ runs[r].inserted = {1}
        /\ Cardinality(PagesOf(runs[r].documentId)) = 1
        /\ uploadDocuments[runs[r].documentId].extractionStatus = "PROCESSING"
        /\ uploadDocuments[runs[r].documentId].extractionId = runs[r].extractionId
        /\ Len(runs) = 1

\* ------------------------------------------------------------- C27
\* C27 as claimed: the array a run returns has one entry per page 1..N in
\* page order; the entry of page k is the placeholder exactly when the run
\* inserted no Page Record for page k; and when it inserted one, the entry
\* carries the field values of that record.
C27_ReturnedArrayAgreesWithStore ==
    \A r \in Runs :
        runs[r].pc = "returned" =>
            LET run == runs[r]
            IN  /\ Len(run.extractedPages) = run.numPages
                /\ \A k \in 1..run.numPages :
                      LET entry == run.extractedPages[k]
                      IN  /\ entry.pageNumber = k
                          /\ IsPlaceholderRow(entry) <=> k \notin run.inserted
                          /\ k \in run.inserted =>
                                \E row \in PagesOf(run.documentId) :
                                    /\ row.pageNumber = k
                                    /\ row.containerNumbers = entry.containerNumbers
                                    /\ row.containerSizes = entry.containerSizes
                                    /\ row.fullEmptyStatuses = entry.fullEmptyStatuses
                                    /\ row.unsureFields = entry.unsureFields

\* The same for the pages whose usage insert did not throw after the page
\* insert.  Holds.
C27_AgreesUnlessUsageInsertThrew ==
    \A r \in Runs :
        runs[r].pc = "returned" =>
            LET run == runs[r]
            IN  /\ Len(run.extractedPages) = run.numPages
                /\ \A k \in 1..run.numPages :
                      LET entry == run.extractedPages[k]
                      IN  /\ entry.pageNumber = k
                          /\ k \notin run.inserted => IsPlaceholderRow(entry)
                          /\ (k \in run.inserted /\ k \notin run.threw) =>
                                /\ ~IsPlaceholderRow(entry)
                                /\ \E row \in PagesOf(run.documentId) :
                                      /\ row.pageNumber = k
                                      /\ row.containerNumbers = entry.containerNumbers
                                      /\ row.containerSizes = entry.containerSizes
                                      /\ row.fullEmptyStatuses = entry.fullEmptyStatuses
                                      /\ row.unsureFields = entry.unsureFields

\* ------------------------------------------------------------- C28
\* The status the run writes from its position pc.
StatusWrittenAt(pc) ==
    IF pc = "setProcessing" THEN "PROCESSING"
    ELSE IF pc = "setCompleted" THEN "COMPLETED" ELSE "FAILED"

\* The run has written the status, as far as its history tells.
HasWritten(run, status) ==
    IF status = "PROCESSING"
    THEN run.pc # "setProcessing" /\ run.cause # "processing"
    ELSE IF status = "COMPLETED"
    THEN run.pc = "returned"
    ELSE status = "FAILED" /\ run.pc = "rejected" /\ run.rejectedWith # "failed"

\* C28: in every reachable state a document is IDEAL exactly when it has
\* no extraction id, and a non-IDEAL status is stored with the id of a run
\* on the document that has written that status; every change of a row is
\* one status write that stores the writing run's status and id together;
\* and a run's id never changes, so its terminal write stores the id its
\* PROCESSING write stored.
C28_StatusAndIdTogether ==
    /\ [](\A d \in Documents :
             LET row == uploadDocuments[d]
             IN  /\ row.extractionStatus = "IDEAL" <=> row.extractionId = NoRun
                 /\ row.extractionStatus # "IDEAL" =>
                       \E r \in RunsOn(d) :
                           /\ runs[r].extractionId = row.extractionId
                           /\ HasWritten(runs[r], row.extractionStatus))
    /\ [][\A d \in Documents :
            uploadDocuments'[d] # uploadDocuments[d]
            => \E r \in RunsOn(d) :
                  /\ StatusWriteBy(r)
                  /\ uploadDocuments'[d].extractionStatus = StatusWrittenAt(runs[r].pc)
                  /\ uploadDocuments'[d].extractionId = runs[r].extractionId]_vars
    /\ [][\A r \in Runs : runs'[r].extractionId = runs[r].extractionId]_vars

\* A document is FAILED under the id of its second run while its first run
\* has returned: the later write replaced status and id together.
C28_Witness ==
    \E r, s \in Runs :
        /\ r # s /\ runs[r].documentId = runs[s].documentId
        /\ runs[r].pc = "returned" /\ runs[s].pc = "rejected"
        /\ uploadDocuments[runs[s].documentId].extractionStatus = "FAILED"
        /\ uploadDocuments[runs[s].documentId].extractionId = runs[s].extractionId

\* ------------------------------------------------------------- C29
\* Run s is a second run over the pages of run r: r is an earlier run on
\* the same document that returned after inserting the Page Record of every
\* page 1..N, and s was started after r had finished.
SecondRunOver(r, s) ==
    /\ r < s
    /\ runs[r].documentId = runs[s].documentId
    /\ runs[r].pc = "returned"
    /\ runs[r].numPages >= 1
    /\ runs[r].inserted = 1..runs[r].numPages
    /\ ~runs[s].overlapped

\* C29: a second run on a document that holds the Page Records of pages
\* 1..N from a finished earlier run calls the model once for each page in
\* order; every page insert it reaches is refused by the unique index on
\* (documentId, pageNumber); no step of it changes a Page Record or a Usage
\* Record and none is added; every entry of its array is the placeholder of
\* its page, N of them when the loop is left; no page sends it to the outer
\* catch; and the step in which it returns stores COMPLETED under its own
\* extraction id, which is not the earlier run's.
C29_SecondRunAllPagesRefused ==
    /\ [](\A r, s \in Runs :
             SecondRunOver(r, s) =>
                 LET run == runs[s]
                     d == run.documentId
                     N == runs[r].numPages
                 IN  /\ run.extractionId # runs[r].extractionId
                     /\ run.inserted = {}
                     /\ run.cause # "parse"
                     /\ run.pc \in {"setFailed", "rejected"} =>
                            run.cause \in {"processing", "completed"}
                     /\ \A k \in 1..Len(run.calls) : run.calls[k].pageNumber = k
                     /\ \A k \in 1..Len(run.extractedPages) :
                            run.extractedPages[k] = PlaceholderPage(k)
                     /\ run.pc = "savePage" => PageExists(d, run.pageNum)
                     /\ LoopDone(run) =>
                            /\ Len(run.calls) = N
                            /\ Len(run.extractedPages) = N
                            /\ run.threw = 1..N
                     /\ {row.pageNumber : row \in PagesOf(d)} = 1..N
                     /\ Cardinality(PagesOf(d)) = N
                     /\ \A u \in UsageOf(d) : u.requestId[1] # run.extractionId)
    /\ [][\A r, s \in Runs :
            (SecondRunOver(r, s) /\ runs'[s] # runs[s]) =>
                /\ extractedPageData' = extractedPageData
                /\ documentTokenUsage' = documentTokenUsage
                /\ (runs[s].pc = "savePage" => runs'[s] = PageThrew(runs[s]))
                /\ (runs[s].pc = "setCompleted" /\ runs'[s].pc = "returned") =>
                       /\ uploadDocuments'[runs[s].documentId].extractionStatus = "COMPLETED"
                       /\ uploadDocuments'[runs[s].documentId].extractionId
                              = runs[s].extractionId]_vars

\* Over a document whose two pages a first run inserted, a second run has
\* returned: both of its model calls returned, both inserts were refused,
\* its array holds two placeholders, the two Page Records are the first
\* run's, and the document is COMPLETED under the second run's id.
C29_Witness ==
    \E r, s \in Runs :
        /\ SecondRunOver(r, s)
        /\ runs[r].numPages = 2
        /\ runs[s].pc = "returned"
        /\ Len(runs[s].calls) = 2
        /\ \A k \in 1..2 : runs[s].calls[k].returned
        /\ runs[s].threw = {1, 2}
        /\ runs[s].extractedPages = <<PlaceholderPage(1), PlaceholderPage(2)>>
        /\ uploadDocuments[runs[s].documentId].extractionStatus = "COMPLETED"
        /\ uploadDocuments[runs[s].documentId].extractionId = runs[s].extractionId

\* ------------------------------------------------------------- C30
\* Nothing but the position and history of the runs, the Document rows, the
\* log and the unhandled rejections may change in the step.
OnlyRunAndStatus ==
    UNCHANGED <<extractedPageData, documentTokenUsage, files, requests, lastRead>>

\* C30: within one run a terminal status is written successfully at most
\* once.  A COMPLETED write that succeeds stores COMPLETED under the run's id
\* and the run has returned, after which it takes no further step (so it
\* never writes FAILED over its COMPLETED); a COMPLETED write that throws
\* stores nothing and enters the outer catch.  The FAILED write is made only
\* by a run whose PROCESSING write, page count or COMPLETED write threw, and
\* it ends the run: when it succeeds FAILED is stored under the run's id and
\* the run rejects with the error it caught; when it throws, every Document
\* row stays as it was and the run rejects with the write's error.  The
\* rejection of a run started by the upload handler is added to the
\* handler's log and to nothing else: it is not left unhandled and no
\* response, Page Record or Usage Record changes.
C30_TerminalStatusOncePerRun ==
    /\ [](\A r \in Runs :
             LET run == runs[r] IN
             /\ run.pc = "returned" =>
                    run.cause = "none" /\ r \notin errorLog /\ r \notin unhandled
             /\ run.pc \in {"setFailed", "rejected"} =>
                    run.cause \in {"processing", "parse", "completed"}
             /\ (run.pc = "rejected" /\ run.origin = "http") =>
                    r \in errorLog /\ r \notin unhandled)
    /\ [][\A r \in Runs :
            Finished(runs[r]) =>
                /\ runs'[r].pc = runs[r].pc
                /\ runs'[r].rejectedWith = runs[r].rejectedWith]_vars
    /\ [][\A r \in Runs :
            (runs[r].pc = "setCompleted" /\ runs'[r].pc # "setCompleted") =>
                LET d == runs[r].documentId IN
                \/ /\ runs'[r].pc = "returned"
                   /\ uploadDocuments'[d].extractionStatus = "COMPLETED"
                   /\ uploadDocuments'[d].extractionId = runs[r].extractionId
                \/ /\ runs'[r].pc = "setFailed"
                   /\ runs'[r].cause = "completed"
                   /\ UNCHANGED uploadDocuments]_vars
    /\ [][\A r \in Runs :
            (runs[r].pc = "setFailed" /\ runs'[r].pc # "setFailed") =>
                LET d == runs[r].documentId IN
                /\ runs'[r].pc = "rejected"
                /\ OnlyRunAndStatus
                /\ \/ /\ runs'[r].rejectedWith = runs[r].cause
                      /\ uploadDocuments'[d].extractionStatus = "FAILED"
                      /\ uploadDocuments'[d].extractionId = runs[r].extractionId
                   \/ /\ runs'[r].rejectedWith = "failed"
                      /\ UNCHANGED uploadDocuments
                /\ runs[r].origin = "http" =>
                      errorLog' = errorLog \cup {r} /\ UNCHANGED unhandled]_vars

\* The COMPLETED write of a run started by the upload handler threw and so
\* did its FAILED write: the document is still PROCESSING under the run's
\* id and the rejection is in the handler's log.
C30_Witness ==
    \E r \in Runs :
        /\ runs[r].origin = "http"
        /\ runs[r].pc = "rejected"
        /\ runs[r].cause = "completed"
        /\ runs[r].rejectedWith = "failed"
        /\ r \in errorLog
        /\ uploadDocuments[runs[r].documentId].extractionStatus = "PROCESSING"
        /\ uploadDocuments[runs[r].documentId].extractionId = runs[r].extractionId

====
